---- MODULE Spec2Model ----
(***************************************************************************)
(* Model of libcperciva/datastruct/elasticarray.c: one elastic array (the  *)
(* struct elasticarray with its fields size, alloc and buf), the heap the  *)
(* C allocator manages for it, and one action per public function.  size_t *)
(* arithmetic is unsigned and wraps modulo SIZE_MAX + 1.                   *)
(*                                                                         *)
(* Spec runs every function but elasticarray_iter on a 3-bit size_t;       *)
(* SpecIter runs elasticarray_iter with an fp that changes the array;      *)
(* SpecPolicy and SpecAmortized run resize() on a wider size_t.            *)
(***************************************************************************)
EXTENDS Integers, Sequences, FiniteSets, TLC

(* ------------------------------ bounds -------------------------------- *)

\* Largest record length the caller passes (reclen ranges over 1..MaxRecLen).
MaxRecLen == 2

\* Byte values the caller stores are 1..MaxByte.
MaxByte == 1

(* ---------------------------- C constants ----------------------------- *)

\* Largest size_t value, with size_t scaled down to 3 bits so that every
\* size and every wrap of the arithmetic is within reach.
SIZE_MAX == 7

ENOMEM == 12

\* sizeof(struct elasticarray), in words: size, alloc, buf.
sizeof_struct == 3

NULL == 0

\* An indeterminate byte (never written since the block was allocated).
Uninit == 0

\* The addresses of heap blocks.  Two are enough: the buffer, and the block
\* realloc moves it to or exportdup copies it to; the caller frees that
\* block before its next call.
Ptrs == {1, 2}
Bytes == 1..MaxByte
SizeT == 0..SIZE_MAX
RecLens == 1..MaxRecLen

(* ------------------------- size_t arithmetic -------------------------- *)

Wrap(x) == x % (SIZE_MAX + 1)
Mul(a, b) == Wrap(a * b)
Add(a, b) == Wrap(a + b)

(* ------------------------------- state -------------------------------- *)

VARIABLES
    ea,      \* the wrapper (struct elasticarray): "null", "live" or "freed"
    size,    \* EA->size
    alloc,   \* EA->alloc
    buf,     \* EA->buf: NULL or a pointer into the heap
    heap,    \* heap[p]: the bytes of block p (<<>> when p is not live)
    live,    \* the set of blocks malloc/realloc handed out and nobody freed
    out,     \* *buf as set by export/exportdup: the caller's buffer
    outn,    \* *nrec as set by export/exportdup
    errno,   \* errno as the last call left it (the caller clears it first)
    ub,      \* TRUE once a call has had undefined behaviour
    last,    \* the call that just returned: function, arguments, result
    calls,   \* the allocator requests that call made, in order (in
             \* SpecAmortized: that the appends so far have made)
    hist,    \* what the appends since elasticarray_init(0, ...) have stored
    iter     \* elasticarray_iter's loop: where it is, what it has passed to fp

vars ==
    <<ea, size, alloc, buf, heap, live, out, outn, errno, ub, last, calls, hist,
      iter>>

(* ------------------------------ the heap ------------------------------ *)

\* n bytes of freshly allocated memory.
Fresh(n) == [i \in 1..n |-> Uninit]

\* The bytes of a block of d's content reallocated to n bytes.
Fit(d, n) == [i \in 1..n |-> IF i <= Len(d) THEN d[i] ELSE Uninit]

\* An allocator request as the model records it: the function, whether the
\* size asked for was zero, and whether a block came back.
Req(fn, n, p) == [fn |-> fn, zero |-> (n = 0), ok |-> (p # NULL)]

\* free(p): free(NULL) does nothing.
Free(h, l, p) ==
    IF p = NULL THEN [heap |-> h, live |-> l]
    ELSE [heap |-> [h EXCEPT ![p] = <<>>], live |-> l \ {p}]

\* malloc(n): NULL, or a block that was not live, with indeterminate bytes.
Malloc(h, l, n) ==
    {[p |-> NULL, heap |-> h, live |-> l]} \cup
    {[p |-> q, heap |-> [h EXCEPT ![q] = Fresh(n)], live |-> l \cup {q}] :
        q \in Ptrs \ l}

\* realloc(p, n) for n > 0: NULL with the old block untouched, or the block
\* resized in place, or a new block with the old one's bytes and the old
\* block freed.  realloc(NULL, n) is malloc(n).
Realloc(h, l, p, n) ==
    IF p = NULL THEN Malloc(h, l, n)
    ELSE {[p |-> NULL, heap |-> h, live |-> l]} \cup
         {[p |-> p, heap |-> [h EXCEPT ![p] = Fit(h[p], n)], live |-> l]} \cup
         {[p |-> q,
           heap |-> [h EXCEPT ![q] = Fit(h[p], n), ![p] = <<>>],
           live |-> (l \ {p}) \cup {q}] : q \in Ptrs \ l}

(* ------------------------------ resize -------------------------------- *)

\* nalloc with the bug of never shrinking the allocation.
nalloc_never_shrinks(A, T) ==
    IF A < T
    THEN (IF Mul(A, 2) < T THEN T ELSE Mul(A, 2))
    ELSE A

\* The allocation resize() wants for a buffer of A bytes resized to T bytes.
nalloc(A, T) ==
    IF A < T
    THEN (IF Mul(A, 2) < T THEN T ELSE Mul(A, 2))
    ELSE IF A > Mul(T, 4) THEN Mul(T, 2)
    ELSE A

\* resize() when nalloc is 0 (lines 45-48), with the bug of leaving alloc as
\* it was.
resize_to_zero_keeps_alloc(nsize) ==
    LET f == Free(heap, live, buf) IN
    [ret |-> 0, size |-> nsize, alloc |-> alloc, buf |-> NULL,
     heap |-> f.heap, live |-> f.live, calls |-> <<Req("free", 0, buf)>>]

\* resize() when nalloc is 0: free the buffer, no realloc(p, 0).
resize_to_zero(nsize) ==
    LET f == Free(heap, live, buf) IN
    [ret |-> 0, size |-> nsize, alloc |-> 0, buf |-> NULL,
     heap |-> f.heap, live |-> f.live, calls |-> <<Req("free", 0, buf)>>]

\* resize() when it reallocates (lines 49-58), with the bug of recording the
\* new size before the realloc is known to have worked.
resize_realloc_records_size_first(nsize, na) ==
    {IF r.p = NULL
     THEN [ret |-> -1, size |-> nsize, alloc |-> alloc, buf |-> buf,
           heap |-> r.heap, live |-> r.live,
           calls |-> <<Req("realloc", na, NULL)>>]
     ELSE [ret |-> 0, size |-> nsize, alloc |-> na, buf |-> r.p,
           heap |-> r.heap, live |-> r.live,
           calls |-> <<Req("realloc", na, r.p)>>] :
     r \in Realloc(heap, live, buf, na)}

\* resize() when it reallocates to na # 0 bytes: on NULL nothing is touched
\* and -1 returned, otherwise buf, alloc and size are set.
resize_realloc(nsize, na) ==
    {IF r.p = NULL
     THEN [ret |-> -1, size |-> size, alloc |-> alloc, buf |-> buf,
           heap |-> r.heap, live |-> r.live,
           calls |-> <<Req("realloc", na, NULL)>>]
     ELSE [ret |-> 0, size |-> nsize, alloc |-> na, buf |-> r.p,
           heap |-> r.heap, live |-> r.live,
           calls |-> <<Req("realloc", na, r.p)>>] :
     r \in Realloc(heap, live, buf, na)}

\* resize() with the bug of calling realloc(EA->buf, 0) where it should free.
resize_reallocs_to_zero(nsize) ==
    LET na == nalloc(alloc, nsize) IN
    IF na # alloc THEN resize_realloc(nsize, na)
    ELSE {[ret |-> 0, size |-> nsize, alloc |-> alloc, buf |-> buf,
           heap |-> heap, live |-> live, calls |-> <<>>]}

\* resize(EA, nsize): the possible results, each with the fields of EA, the
\* heap and the allocator requests made.
resize(nsize) ==
    LET na == nalloc(alloc, nsize) IN
    IF na = 0 THEN {resize_to_zero(nsize)}
    ELSE IF na # alloc THEN resize_realloc(nsize, na)
    ELSE {[ret |-> 0, size |-> nsize, alloc |-> alloc, buf |-> buf,
           heap |-> heap, live |-> live, calls |-> <<>>]}

\* What errno holds after a call whose allocation failed: malloc and realloc
\* set ENOMEM (POSIX).
ErrnoAfterAllocFailure == {ENOMEM}

Call(op, nrec, reclen, ret, cause) ==
    [op |-> op, nrec |-> nrec, reclen |-> reclen, ret |-> ret, cause |-> cause]

\* hist: the record length L of the appends so far (0 before the first),
\* their record counts summed, and their bytes in call order.  NoHist once
\* the array was not built by elasticarray_init(0, ...) and appends of one
\* record length alone.
NoHist == [L |-> -1, n |-> 0, bytes |-> <<>>]
EmptyHist == [L |-> 0, n |-> 0, bytes |-> <<>>]

\* iter: whether elasticarray_iter is in its loop (pc), its reclen and i, the
\* record count when it was called (k), whether every call of fp so far has
\* left the size alone (steady), and the addresses it has passed to fp, each
\* as its offset from EA->buf (seen).  NoIter outside elasticarray_iter.
NoIter ==
    [pc |-> "none", reclen |-> 1, i |-> 0, k |-> 0, steady |-> TRUE,
     seen |-> <<>>]

(* ------------------------------ getsize ------------------------------- *)

elasticarray_getsize(reclen) == size \div reclen

(* ------------------------------- Init --------------------------------- *)

Init ==
    /\ ea = "null"
    /\ size = 0
    /\ alloc = 0
    /\ buf = NULL
    /\ heap = [p \in Ptrs |-> <<>>]
    /\ live = {}
    /\ out = NULL
    /\ outn = 0
    /\ errno = 0
    /\ ub = FALSE
    /\ last = Call("none", 0, 1, 0, "none")
    /\ calls = <<>>
    /\ hist = NoHist
    /\ iter = NoIter

\* The caller is between two calls.
Idle == last.op = "none" /\ ~ub

\* The caller holds a usable array and no exported buffer it has yet to free.
Usable == Idle /\ ea = "live" /\ out = NULL

(* ------------------------ elasticarray_resize ------------------------- *)

\* elasticarray_resize's check for overflow.
resize_overflows(nrec, reclen) == nrec > SIZE_MAX \div reclen

\* overflow_result with the bug of not setting errno.
overflow_result_without_errno ==
    [ret |-> -1, cause |-> "overflow", errno |-> errno,
     size |-> size, alloc |-> alloc, buf |-> buf,
     heap |-> heap, live |-> live, calls |-> <<>>]

\* What a call leaves when its check for overflow fires: errno = ENOMEM, -1
\* returned, nothing else done.
overflow_result ==
    [ret |-> -1, cause |-> "overflow", errno |-> ENOMEM,
     size |-> size, alloc |-> alloc, buf |-> buf,
     heap |-> heap, live |-> live, calls |-> <<>>]

\* The body of elasticarray_resize on the fields given: overflow check, then
\* resize().
elasticarray_resize_results(nrec, reclen) ==
    IF resize_overflows(nrec, reclen)
    THEN {overflow_result}
    ELSE UNION {
        IF r.ret = 0
        THEN {[ret |-> 0, cause |-> "none", errno |-> 0,
               size |-> r.size, alloc |-> r.alloc, buf |-> r.buf,
               heap |-> r.heap, live |-> r.live, calls |-> r.calls]}
        ELSE {[ret |-> -1, cause |-> "alloc", errno |-> e,
               size |-> r.size, alloc |-> r.alloc, buf |-> r.buf,
               heap |-> r.heap, live |-> r.live, calls |-> r.calls] :
              e \in ErrnoAfterAllocFailure} :
        r \in resize(Mul(nrec, reclen))}

elasticarray_resize(nrec, reclen) ==
    /\ Usable
    /\ \E r \in elasticarray_resize_results(nrec, reclen) :
        /\ size' = r.size
        /\ alloc' = r.alloc
        /\ buf' = r.buf
        /\ heap' = r.heap
        /\ live' = r.live
        /\ errno' = r.errno
        /\ calls' = r.calls
        /\ last' = Call("resize", nrec, reclen, r.ret, r.cause)
    /\ hist' = NoHist
    /\ UNCHANGED <<ea, out, outn, ub, iter>>

(* ------------------------- elasticarray_init -------------------------- *)

\* malloc of the structure, the empty array, elasticarray_resize, and on its
\* failure elasticarray_free.  The structure is not one of the blocks of
\* heap: ea says whether it is allocated.
elasticarray_init(nrec, reclen) ==
    /\ Idle /\ ea # "live" /\ out = NULL
    /\ size = 0 /\ alloc = 0 /\ buf = NULL
    /\ \/ \* malloc(sizeof(struct elasticarray)) returns NULL
          /\ \E e \in ErrnoAfterAllocFailure : errno' = e
          /\ calls' = <<Req("malloc", sizeof_struct, NULL)>>
          /\ last' = Call("init", nrec, reclen, -1, "alloc")
          /\ hist' = NoHist
          /\ UNCHANGED <<ea, size, alloc, buf, heap, live>>
       \/ \E r \in elasticarray_resize_results(nrec, reclen) :
            IF r.ret = 0
            THEN /\ ea' = "live"
                 /\ size' = r.size
                 /\ alloc' = r.alloc
                 /\ buf' = r.buf
                 /\ heap' = r.heap
                 /\ live' = r.live
                 /\ errno' = 0
                 /\ calls' = <<Req("malloc", sizeof_struct, 1)>> \o r.calls
                 /\ last' = Call("init", nrec, reclen, 0, "none")
                 /\ hist' = IF nrec = 0 THEN EmptyHist ELSE NoHist
            ELSE \* err1: elasticarray_free(EA)
                 /\ ea' = "freed"
                 /\ size' = 0 /\ alloc' = 0 /\ buf' = NULL
                 /\ heap' = Free(r.heap, r.live, r.buf).heap
                 /\ live' = Free(r.heap, r.live, r.buf).live
                 /\ errno' = r.errno
                 /\ calls' = <<Req("malloc", sizeof_struct, 1)>> \o r.calls \o
                        <<Req("free", 0, r.buf), Req("free", 0, 1)>>
                 /\ last' = Call("init", nrec, reclen, -1, r.cause)
                 /\ hist' = NoHist
    /\ UNCHANGED <<out, outn, ub, iter>>

(* ------------------------ elasticarray_append ------------------------- *)

\* The n bytes the caller appends: 1, 2, ..., MaxByte, 1, 2, ...
Src(n) == [i \in 1..n |-> ((i - 1) % MaxByte) + 1]

\* memcpy(d + pos, src, Len(src)) on a block holding d, for a copy that stays
\* inside the block.
memcpy(d, pos, src) ==
    [i \in 1..Len(d) |->
        IF pos < i /\ i <= pos + Len(src) THEN src[i - pos] ELSE d[i]]

\* The part of src that lands inside a block of len bytes when it is copied
\* to offset pos.
Inside(src, pos, len) ==
    IF pos >= len THEN <<>>
    ELSE SubSeq(src, 1, IF Len(src) < len - pos THEN Len(src) ELSE len - pos)

\* The check without its first half: nrec * reclen is not checked before it
\* is used.
append_overflows_sum_only(nrec, reclen) ==
    Mul(nrec, reclen) > SIZE_MAX - size

\* elasticarray_append's check for overflow.
append_overflows(nrec, reclen) ==
    \/ nrec > SIZE_MAX \div reclen
    \/ Mul(nrec, reclen) > SIZE_MAX - size

elasticarray_append(nrec, reclen) ==
    /\ Usable
    /\ IF append_overflows(nrec, reclen)
       THEN /\ errno' = overflow_result.errno
            /\ calls' = overflow_result.calls
            /\ last' = Call("append", nrec, reclen, overflow_result.ret, overflow_result.cause)
            /\ UNCHANGED <<size, alloc, buf, heap, live, ub, hist>>
       ELSE \E r \in resize(Add(size, Mul(nrec, reclen))) :
            /\ size' = r.size
            /\ alloc' = r.alloc
            /\ buf' = r.buf
            /\ live' = r.live
            /\ calls' = r.calls
            /\ IF r.ret # 0
               THEN /\ heap' = r.heap
                    /\ errno' \in ErrnoAfterAllocFailure
                    /\ last' = Call("append", nrec, reclen, -1, "alloc")
                    /\ UNCHANGED <<ub, hist>>
               ELSE /\ errno' = 0
                    /\ last' = Call("append", nrec, reclen, 0, "none")
                    /\ hist' = IF hist.L \in {0, reclen}
                               THEN [L |-> reclen, n |-> hist.n + nrec,
                                     bytes |-> hist.bytes \o
                                        Src(Mul(nrec, reclen))]
                               ELSE NoHist
                    /\ IF nrec = 0
                       THEN heap' = r.heap /\ UNCHANGED ub
                       ELSE IF size + Mul(nrec, reclen) <= r.alloc
                       THEN /\ heap' = [r.heap EXCEPT ![r.buf] =
                                memcpy(@, size, Src(Mul(nrec, reclen)))]
                            /\ UNCHANGED ub
                       ELSE \* memcpy runs past the end of the block (or
                            \* starts from NULL): undefined behaviour.  The
                            \* bytes inside the block are written or the
                            \* process stops before writing any.
                            /\ ub' = TRUE
                            /\ \/ heap' = r.heap
                               \/ /\ r.buf # NULL
                                  /\ heap' = [r.heap EXCEPT ![r.buf] =
                                        memcpy(@, size,
                                            Inside(Src(Mul(nrec, reclen)),
                                                size, r.alloc))]
    /\ UNCHANGED <<ea, out, outn, iter>>

(* ------------------------ elasticarray_shrink ------------------------- *)

\* elasticarray_shrink with the bug of leaving the size alone when the
\* realloc fails.
elasticarray_shrink_fails_like_resize(nrec, reclen) ==
    /\ Usable
    /\ LET nsize == IF nrec > SIZE_MAX \div reclen \/ Mul(nrec, reclen) > size
                    THEN 0
                    ELSE size - Mul(nrec, reclen)
       IN \E r \in resize(nsize) :
            /\ alloc' = r.alloc
            /\ buf' = r.buf
            /\ heap' = r.heap
            /\ live' = r.live
            /\ calls' = r.calls
            /\ IF r.ret # 0
               THEN /\ size' = r.size
                    /\ errno' \in ErrnoAfterAllocFailure
               ELSE /\ size' = r.size
                    /\ errno' = 0
            /\ last' = Call("shrink", nrec, reclen, 0,
                            IF r.ret # 0 THEN "alloc" ELSE "none")
    /\ hist' = NoHist
    /\ UNCHANGED <<ea, out, outn, ub, iter>>

elasticarray_shrink(nrec, reclen) ==
    /\ Usable
    /\ LET nsize == IF nrec > SIZE_MAX \div reclen \/ Mul(nrec, reclen) > size
                    THEN 0
                    ELSE size - Mul(nrec, reclen)
       IN \E r \in resize(nsize) :
            /\ alloc' = r.alloc
            /\ buf' = r.buf
            /\ heap' = r.heap
            /\ live' = r.live
            /\ calls' = r.calls
            /\ IF r.ret # 0
               THEN \* record the new length, keep the old buffer
                    /\ size' = nsize
                    /\ errno' \in ErrnoAfterAllocFailure
               ELSE /\ size' = r.size
                    /\ errno' = 0
            /\ last' = Call("shrink", nrec, reclen, 0,
                            IF r.ret # 0 THEN "alloc" ELSE "none")
    /\ hist' = NoHist
    /\ UNCHANGED <<ea, out, outn, ub, iter>>

(* ----------------------- elasticarray_truncate ------------------------ *)

\* The possible results of elasticarray_truncate on the current array.
elasticarray_truncate_results ==
    IF size = 0
    THEN LET f == Free(heap, live, buf) IN
         {[ret |-> 0, alloc |-> 0, buf |-> NULL,
           heap |-> f.heap, live |-> f.live,
           calls |-> <<Req("free", 0, buf)>>]}
    ELSE IF alloc > size
    THEN {IF r.p = NULL
          THEN [ret |-> -1, alloc |-> alloc, buf |-> buf,
                heap |-> r.heap, live |-> r.live,
                calls |-> <<Req("realloc", size, NULL)>>]
          ELSE [ret |-> 0, alloc |-> size, buf |-> r.p,
                heap |-> r.heap, live |-> r.live,
                calls |-> <<Req("realloc", size, r.p)>>] :
          r \in Realloc(heap, live, buf, size)}
    ELSE {[ret |-> 0, alloc |-> alloc, buf |-> buf,
           heap |-> heap, live |-> live, calls |-> <<>>]}

elasticarray_truncate ==
    /\ Usable
    /\ \E r \in elasticarray_truncate_results :
        /\ alloc' = r.alloc
        /\ buf' = r.buf
        /\ heap' = r.heap
        /\ live' = r.live
        /\ calls' = r.calls
        /\ IF r.ret # 0
           THEN /\ errno' \in ErrnoAfterAllocFailure
                /\ last' = Call("truncate", 0, 1, -1, "alloc")
           ELSE /\ errno' = 0
                /\ last' = Call("truncate", 0, 1, 0, "none")
    /\ hist' = NoHist
    /\ UNCHANGED <<ea, size, out, outn, ub, iter>>

(* ------------------------- elasticarray_free -------------------------- *)

\* elasticarray_free with the bug of freeing the structure alone.
elasticarray_free_leaks_buffer ==
    /\ Idle /\ out = NULL
    /\ IF ea # "live"
       THEN /\ calls' = <<>>
            /\ UNCHANGED <<ea, size, alloc, buf, heap, live>>
       ELSE /\ ea' = "freed"
            /\ size' = 0 /\ alloc' = 0 /\ buf' = NULL
            /\ calls' = <<Req("free", 0, 1)>>
            /\ UNCHANGED <<heap, live>>
    /\ errno' = 0
    /\ last' = Call("free", 0, 1, 0, "none")
    /\ hist' = NoHist
    /\ UNCHANGED <<out, outn, ub, iter>>

\* elasticarray_free(EA) for EA = NULL returns at once; otherwise it frees
\* the buffer and the structure.
elasticarray_free ==
    /\ Idle /\ out = NULL
    /\ IF ea # "live"
       THEN /\ calls' = <<>>
            /\ UNCHANGED <<ea, size, alloc, buf, heap, live>>
       ELSE /\ ea' = "freed"
            /\ size' = 0 /\ alloc' = 0 /\ buf' = NULL
            /\ heap' = Free(heap, live, buf).heap
            /\ live' = Free(heap, live, buf).live
            /\ calls' = <<Req("free", 0, buf), Req("free", 0, 1)>>
    /\ errno' = 0
    /\ last' = Call("free", 0, 1, 0, "none")
    /\ hist' = NoHist
    /\ UNCHANGED <<out, outn, ub, iter>>

(* ------------------------ elasticarray_export ------------------------- *)

elasticarray_export(reclen) ==
    /\ Usable
    /\ \E r \in elasticarray_truncate_results :
        /\ heap' = r.heap
        /\ live' = r.live
        /\ IF r.ret # 0
           THEN /\ errno' \in ErrnoAfterAllocFailure
                /\ calls' = r.calls
                /\ last' = Call("export", 0, reclen, -1, "alloc")
                /\ UNCHANGED <<ea, size, alloc, buf, out, outn>>
           ELSE /\ out' = r.buf
                /\ outn' = size \div reclen
                /\ ea' = "freed"
                /\ size' = 0 /\ alloc' = 0 /\ buf' = NULL
                /\ errno' = 0
                /\ calls' = r.calls \o <<Req("free", 0, 1)>>
                /\ last' = Call("export", 0, reclen, 0, "none")
    /\ hist' = NoHist
    /\ UNCHANGED <<ub, iter>>

(* ----------------------- elasticarray_exportdup ----------------------- *)

\* malloc(0) returns NULL or a block of no bytes, as the allocator likes; a
\* NULL is taken for a failure.  memcpy of EA->size bytes out of a block of
\* fewer bytes (or out of NULL) is undefined behaviour: the copy's bytes past
\* the block are indeterminate, or the process stops before copying.
elasticarray_exportdup(reclen) ==
    /\ Usable
    /\ \E m \in Malloc(heap, live, size) :
        /\ live' = m.live
        /\ calls' = <<Req("malloc", size, m.p)>>
        /\ IF m.p = NULL
           THEN /\ heap' = m.heap
                /\ errno' \in ErrnoAfterAllocFailure
                /\ last' = Call("exportdup", 0, reclen, -1, "alloc")
                /\ UNCHANGED <<out, outn, ub>>
           ELSE /\ out' = m.p
                /\ outn' = elasticarray_getsize(reclen)
                /\ errno' = 0
                /\ last' = Call("exportdup", 0, reclen, 0, "none")
                /\ IF size <= alloc
                   THEN /\ heap' = [m.heap EXCEPT ![m.p] =
                                [i \in 1..size |-> heap[buf][i]]]
                        /\ UNCHANGED ub
                   ELSE /\ ub' = TRUE
                        /\ \/ heap' = m.heap
                           \/ /\ buf # NULL
                              /\ heap' = [m.heap EXCEPT ![m.p] =
                                    Fit(heap[buf], size)]
    /\ hist' = NoHist
    /\ UNCHANGED <<ea, size, alloc, buf, iter>>

(* ----------------------------- the caller ----------------------------- *)

\* The caller frees the buffer export or exportdup gave it.
release ==
    /\ Idle /\ out # NULL
    /\ heap' = Free(heap, live, out).heap
    /\ live' = Free(heap, live, out).live
    /\ out' = NULL
    /\ outn' = 0
    /\ errno' = 0
    /\ calls' = <<Req("free", 0, out)>>
    /\ last' = Call("release", 0, 1, 0, "none")
    /\ UNCHANGED <<ea, size, alloc, buf, ub, hist, iter>>

\* The caller has read what the call returned; it clears errno and goes on
\* to its next call.
returned ==
    /\ last.op # "none" /\ ~ub /\ iter.pc = "none"
    /\ last' = Call("none", 0, 1, 0, "none")
    /\ calls' = <<>>
    /\ errno' = 0
    /\ iter' = NoIter
    /\ UNCHANGED <<ea, size, alloc, buf, heap, live, out, outn, ub, hist>>

(* ------------------- the same code on a wider size_t ------------------ *)

\* SpecPolicy and SpecAmortized run resize() and the calls around it with a
\* size_t of WideBits bits, on sizes the 3 bits of Spec do not reach: targets
\* whose products 2A, 2T, 4T stay inside size_t, and runs of enough appends
\* to double the allocation several times.
WideBits == 4
WIDE_MAX == 2^WideBits - 1
WideT == 0..WIDE_MAX
WMul(a, b) == (a * b) % (WIDE_MAX + 1)

\* nalloc_wide with the bug of growing to the size asked for, never doubling.
nalloc_wide_grows_to_fit(A, T) ==
    IF A < T THEN T
    ELSE IF A > WMul(T, 4) THEN WMul(T, 2)
    ELSE A

\* nalloc on WideBits bits.
nalloc_wide(A, T) ==
    IF A < T
    THEN (IF WMul(A, 2) < T THEN T ELSE WMul(A, 2))
    ELSE IF A > WMul(T, 4) THEN WMul(T, 2)
    ELSE A

\* resize(EA, nsize) on WideBits bits.
resize_wide(nsize) ==
    LET na == nalloc_wide(alloc, nsize) IN
    IF na = 0 THEN {resize_to_zero(nsize)}
    ELSE IF na # alloc THEN resize_realloc(nsize, na)
    ELSE {[ret |-> 0, size |-> nsize, alloc |-> alloc, buf |-> buf,
           heap |-> heap, live |-> live, calls |-> <<>>]}

\* elasticarray_resize on WideBits bits.  errno is left alone by a call that
\* succeeds.
elasticarray_resize_wide(nrec, reclen) ==
    /\ Usable
    /\ IF nrec > WIDE_MAX \div reclen
       THEN /\ errno' = overflow_result.errno
            /\ calls' = overflow_result.calls
            /\ last' = Call("resize", nrec, reclen, -1, "overflow")
            /\ UNCHANGED <<size, alloc, buf, heap, live>>
       ELSE \E r \in resize_wide(WMul(nrec, reclen)) :
            /\ size' = r.size
            /\ alloc' = r.alloc
            /\ buf' = r.buf
            /\ heap' = r.heap
            /\ live' = r.live
            /\ calls' = r.calls
            /\ IF r.ret # 0
               THEN /\ errno' \in ErrnoAfterAllocFailure
                    /\ last' = Call("resize", nrec, reclen, -1, "alloc")
               ELSE /\ UNCHANGED errno
                    /\ last' = Call("resize", nrec, reclen, 0, "none")
    /\ hist' = NoHist
    /\ UNCHANGED <<ea, out, outn, ub, iter>>

\* How many of the requests cs the allocator refused.
Refusals(cs) == Cardinality({i \in 1..Len(cs) : ~cs[i].ok})

\* The allocator refuses at most MaxRefusals requests in a run of appends.
MaxRefusals == 1

\* elasticarray_append on WideBits bits, in a run of appends over which the
\* caller keeps the log of allocator requests: calls is added to, not begun
\* anew.
elasticarray_append_wide(nrec, reclen) ==
    /\ ea = "live" /\ ~ub
    /\ IF \/ nrec > WIDE_MAX \div reclen
          \/ WMul(nrec, reclen) > WIDE_MAX - size
       THEN /\ errno' = overflow_result.errno
            /\ last' = Call("append", nrec, reclen, -1, "overflow")
            /\ UNCHANGED <<size, alloc, buf, heap, live, ub, hist, calls>>
       ELSE \E r \in resize_wide(size + WMul(nrec, reclen)) :
            /\ size' = r.size
            /\ alloc' = r.alloc
            /\ buf' = r.buf
            /\ live' = r.live
            /\ calls' = calls \o r.calls
            /\ IF r.ret # 0
               THEN /\ Refusals(calls) < MaxRefusals
                    /\ heap' = r.heap
                    /\ errno' \in ErrnoAfterAllocFailure
                    /\ last' = Call("append", nrec, reclen, -1, "alloc")
                    /\ UNCHANGED <<ub, hist>>
               ELSE /\ UNCHANGED errno
                    /\ last' = Call("append", nrec, reclen, 0, "none")
                    /\ hist' = IF hist.L \in {0, reclen}
                               THEN [L |-> reclen, n |-> hist.n + nrec,
                                     bytes |-> hist.bytes \o
                                        Src(WMul(nrec, reclen))]
                               ELSE NoHist
                    /\ IF nrec = 0
                       THEN heap' = r.heap /\ UNCHANGED ub
                       ELSE IF size + WMul(nrec, reclen) <= r.alloc
                       THEN /\ heap' = [r.heap EXCEPT ![r.buf] =
                                memcpy(@, size, Src(WMul(nrec, reclen)))]
                            /\ UNCHANGED ub
                       ELSE /\ ub' = TRUE
                            /\ \/ heap' = r.heap
                               \/ /\ r.buf # NULL
                                  /\ heap' = [r.heap EXCEPT ![r.buf] =
                                        memcpy(@, size,
                                            Inside(Src(WMul(nrec, reclen)),
                                                size, r.alloc))]
    /\ UNCHANGED <<ea, out, outn, iter>>

\* An array as elasticarray_init and elasticarray_shrink can leave it: empty
\* with no buffer, or S > 0 bytes in a buffer of A >= S bytes.
InitPolicy ==
    \E A \in WideT, S \in WideT, p \in Ptrs :
        /\ S <= A /\ (A > 0 => S > 0)
        /\ ea = "live"
        /\ size = S
        /\ alloc = A
        /\ buf = IF A = 0 THEN NULL ELSE p
        /\ heap = [q \in Ptrs |-> IF A > 0 /\ q = p THEN Fresh(A) ELSE <<>>]
        /\ live = IF A = 0 THEN {} ELSE {p}
        /\ out = NULL
        /\ outn = 0
        /\ errno = 0
        /\ ub = FALSE
        /\ last = Call("none", 0, 1, 0, "none")
        /\ calls = <<>>
        /\ hist = NoHist
        /\ iter = NoIter

\* The array elasticarray_init(0, reclen) returns.
InitAmortized ==
    /\ ea = "live"
    /\ size = 0
    /\ alloc = 0
    /\ buf = NULL
    /\ heap = [p \in Ptrs |-> <<>>]
    /\ live = {}
    /\ out = NULL
    /\ outn = 0
    /\ errno = 0
    /\ ub = FALSE
    /\ last = Call("init", 0, 1, 0, "none")
    /\ calls = <<>>
    /\ hist = EmptyHist
    /\ iter = NoIter

(* ----------------- elasticarray_get, elasticarray_iter ---------------- *)

\* elasticarray_get(EA, pos, reclen): the address EA->buf + pos * reclen, as
\* its offset from EA->buf.  Nothing is read or written through it here.
elasticarray_get(pos, reclen) == Mul(pos, reclen)

\* The loop's test with the bug of comparing i with the record count the
\* array had when elasticarray_iter was called.
iter_continues_count_at_call == iter.i < iter.k

\* The loop's test, made before every call of fp:
\* i < elasticarray_getsize(EA, reclen).
iter_continues == iter.i < elasticarray_getsize(iter.reclen)

\* elasticarray_iter(EA, reclen, fp) is called: i = 0.
elasticarray_iter(reclen) ==
    /\ Usable /\ iter.pc = "none"
    /\ iter' = [pc |-> "loop", reclen |-> reclen, i |-> 0,
                k |-> elasticarray_getsize(reclen), steady |-> TRUE,
                seen |-> <<>>]
    /\ last' = Call("iter", 0, reclen, 0, "none")
    /\ UNCHANGED <<ea, size, alloc, buf, heap, live, out, outn, errno, ub,
                   calls, hist>>

\* An fp that leaves the array alone.
fp_reads == UNCHANGED <<size, alloc, buf, heap, live, errno, calls, hist>>

\* An fp that calls elasticarray_shrink(EA, 1, reclen).
fp_shrinks(reclen) ==
    LET nsize == IF 1 > SIZE_MAX \div reclen \/ Mul(1, reclen) > size
                 THEN 0
                 ELSE size - Mul(1, reclen)
    IN \E r \in resize(nsize) :
        /\ size' = IF r.ret # 0 THEN nsize ELSE r.size
        /\ alloc' = r.alloc
        /\ buf' = r.buf
        /\ heap' = r.heap
        /\ live' = r.live
        /\ calls' = calls \o r.calls
        /\ IF r.ret # 0
           THEN errno' \in ErrnoAfterAllocFailure
           ELSE UNCHANGED errno
        /\ hist' = NoHist

\* An fp that calls
\* elasticarray_resize(EA, elasticarray_getsize(EA, reclen) + 1, reclen).
fp_grows(reclen) ==
    \E r \in elasticarray_resize_results(
                Add(elasticarray_getsize(reclen), 1), reclen) :
        /\ size' = r.size
        /\ alloc' = r.alloc
        /\ buf' = r.buf
        /\ heap' = r.heap
        /\ live' = r.live
        /\ calls' = calls \o r.calls
        /\ IF r.ret # 0 THEN errno' = r.errno ELSE UNCHANGED errno
        /\ hist' = NoHist

\* One turn of the loop: the test holds, fp is called with the address
\* elasticarray_get(EA, reclen, i) returns, i++.
elasticarray_iter_fp ==
    /\ iter.pc = "loop" /\ ~ub
    /\ iter_continues
    /\ \/ fp_reads
       \/ fp_shrinks(iter.reclen)
       \/ fp_grows(iter.reclen)
    /\ iter' = [iter EXCEPT
                    !.i = @ + 1,
                    !.seen = Append(@, elasticarray_get(iter.reclen, iter.i)),
                    !.steady = @ /\ (size' = size)]
    /\ UNCHANGED <<ea, out, outn, ub, last>>

\* The test fails: elasticarray_iter returns.
elasticarray_iter_return ==
    /\ iter.pc = "loop" /\ ~ub
    /\ ~iter_continues
    /\ iter' = [iter EXCEPT !.pc = "none"]
    /\ UNCHANGED <<ea, size, alloc, buf, heap, live, out, outn, errno, ub,
                   last, calls, hist>>

(* ======================== the claims, checked ========================= *)

\* The allocator refused a realloc among the requests cs.
Refused(cs) == \E i \in 1..Len(cs) : cs[i].fn = "realloc" /\ ~cs[i].ok

\* A realloc among the requests cs gave a block.
Reallocated(cs) == \E i \in 1..Len(cs) : cs[i].fn = "realloc" /\ cs[i].ok

\* The bytes of the array's buffer.
Storage == IF buf = NULL THEN <<>> ELSE heap[buf]

\* Marks logical content the buffer does not hold (size beyond the block).
NoBytes == <<-1>>

\* The first size bytes of the buffer: the array's records.
LogicalContent ==
    IF size = 0 THEN <<>>
    ELSE IF size <= Len(Storage) THEN SubSeq(Storage, 1, size)
    ELSE NoBytes

Max(a, b) == IF a > b THEN a ELSE b

\* C1: in every reachable state of a live array, logical_size <= allocated_size
\* (EA->size <= EA->alloc).
C1_SizeWithinAlloc == ea = "live" => size <= alloc

\* C2: when the allocator refuses the realloc of a resize, append, truncate
\* or export, the call returns -1 and leaves size, alloc, buf, every block of
\* the heap and the set of live blocks as they were; the structure stays
\* allocated and the caller is handed nothing.
C2_FailureLeavesUnchanged ==
    [][(last'.op \in {"resize", "append", "truncate", "export"}
            /\ Refused(calls'))
        => /\ last'.ret = -1
           /\ size' = size /\ alloc' = alloc /\ buf' = buf
           /\ heap' = heap /\ live' = live
           /\ ea' = ea /\ ea' = "live"
           /\ out' = out]_vars

\* C2 witness: an append on a non-empty array has just failed on a refused
\* realloc, the array still holding bytes the caller stored.
C2_Witness ==
    /\ last.op = "append" /\ last.ret = -1 /\ Refused(calls)
    /\ size > 0 /\ buf # NULL /\ \E i \in 1..size : Storage[i] \in Bytes

\* The array and the heap are as the call found them.
BufferUnchanged ==
    /\ size' = size /\ alloc' = alloc /\ buf' = buf
    /\ heap' = heap /\ live' = live /\ ea' = ea

\* The last call's nrec * reclen overflows size_t.
BytesOverflow(c) == c.nrec * c.reclen > SIZE_MAX

\* C3 as claimed: resize, construct and append fail on overflow exactly when
\* the byte count (for append also the resulting size) exceeds SIZE_MAX, and
\* in each overflow case no allocator call is made and the buffer is as
\* before the call.
C3_OverflowNoAllocatorCall ==
    [][/\ last'.op = "resize" =>
            /\ (last'.cause = "overflow") = BytesOverflow(last')
            /\ BytesOverflow(last') =>
                last'.ret = -1 /\ calls' = <<>> /\ BufferUnchanged
       /\ (last'.op = "init" /\ BytesOverflow(last')) =>
                last'.ret = -1 /\ calls' = <<>> /\ BufferUnchanged
       /\ last'.op = "append" =>
            /\ (last'.cause = "overflow") =
                (BytesOverflow(last')
                    \/ size + last'.nrec * last'.reclen > SIZE_MAX)
            /\ last'.cause = "overflow" =>
                last'.ret = -1 /\ calls' = <<>> /\ BufferUnchanged]_vars

\* The requests cs ask the allocator for no buffer: they are the malloc of
\* the structure and calls of free.
NoBufferRequest(cs) ==
    \A i \in 1..Len(cs) : cs[i].fn = "free" \/ (i = 1 /\ cs[i].fn = "malloc")

\* C3 as amended: resize and append fail with overflow exactly when the byte
\* count (for append also the resulting size) exceeds SIZE_MAX, making no
\* allocator call and leaving the buffer as it was; construct fails whenever
\* the byte count exceeds SIZE_MAX, with overflow unless the malloc of the
\* structure was refused first, asks the allocator for no buffer and leaves
\* nothing allocated, but it does allocate the structure before the check
\* and frees it after.
C3_OverflowFailsBeforeBuffer ==
    [][/\ last'.op = "resize" =>
            /\ (last'.cause = "overflow") = BytesOverflow(last')
            /\ BytesOverflow(last') =>
                last'.ret = -1 /\ calls' = <<>> /\ BufferUnchanged
       /\ last'.op = "init" =>
            /\ last'.cause = "overflow" => BytesOverflow(last')
            /\ BytesOverflow(last') =>
                /\ last'.ret = -1
                /\ last'.cause = "overflow" \/ ~calls'[1].ok
                /\ NoBufferRequest(calls')
                /\ ea' # "live" /\ live' = live /\ heap' = heap
       /\ last'.op = "append" =>
            /\ (last'.cause = "overflow") =
                (BytesOverflow(last')
                    \/ size + last'.nrec * last'.reclen > SIZE_MAX)
            /\ last'.cause = "overflow" =>
                last'.ret = -1 /\ calls' = <<>> /\ BufferUnchanged]_vars

\* C3 witness: an append of SIZE_MAX / 2 + 1 records of length 2 to a
\* non-empty array has just failed on overflow.
C3_Witness ==
    /\ last.op = "append" /\ last.cause = "overflow" /\ last.ret = -1
    /\ last.nrec = SIZE_MAX \div 2 + 1 /\ last.reclen = 2
    /\ size > 0 /\ size <= alloc /\ calls = <<>>

\* The calls that change a live array's size or allocation.
Mutators == {"init", "resize", "append", "shrink", "truncate"}

C5_AppendsConcatenate ==
    (ea = "live" /\ hist.L >= 0) =>
        /\ LogicalContent = hist.bytes
        /\ hist.L > 0 => elasticarray_getsize(hist.L) = hist.n

\* C6: shrink(n, L) never reports failure and leaves getsize(L) =
\* max(0, previous count - n), whether or not its realloc succeeds; when
\* the realloc fails, alloc, buf and every byte of the heap are unchanged
\* and only size is lowered.
C6_ShrinkNeverFails ==
    [][last'.op = "shrink" =>
        /\ last'.ret = 0
        /\ size' \div last'.reclen =
            Max(0, (size \div last'.reclen) - last'.nrec)
        /\ Refused(calls') =>
            /\ alloc' = alloc /\ buf' = buf
            /\ heap' = heap /\ live' = live
            /\ size' <= size]_vars

\* C6 witness: a shrink's realloc has just failed; records remain, in a
\* buffer of more than four times their bytes, the first still as stored.
C6_Witness ==
    /\ last.op = "shrink" /\ Refused(calls)
    /\ size > 0 /\ alloc > 4 * size /\ Storage[1] \in Bytes

\* C7: a successful export(L) returns the record count getsize(L) had
\* before the call and hands over the array's own buffer, trimmed to size
\* bytes with its content unchanged (NULL when size = 0); the structure is
\* freed, the buffer handed over is not, and no block is added to the heap.
C7_ExportHandsOverBuffer ==
    [][(last'.op = "export" /\ last'.ret = 0) =>
        /\ outn' = size \div last'.reclen
        /\ ea' = "freed"
        /\ size = 0 => out' = NULL
        /\ size > 0 =>
            /\ out' # NULL
            /\ out' \in live'
            /\ heap'[out'] = LogicalContent
            /\ Cardinality(live') = Cardinality(live)]_vars

\* C8: exportdup(L) leaves size, alloc, buf and the buffer's bytes unchanged
\* whether it succeeds or fails; on success the copy is another block, its
\* bytes those of the logical content at the call, and the count returned is
\* getsize(L); on failure nothing is returned.
C8_ExportDupCopies ==
    [][last'.op = "exportdup" =>
        /\ size' = size /\ alloc' = alloc /\ buf' = buf /\ ea' = ea
        /\ buf # NULL => (buf \in live' /\ heap'[buf] = heap[buf])
        /\ last'.ret = 0 =>
            /\ out' # NULL /\ out' # buf /\ out' \notin live /\ out' \in live'
            /\ heap'[out'] = LogicalContent
            /\ outn' = size \div last'.reclen
        /\ last'.ret # 0 =>
            out' = NULL /\ heap' = heap /\ live' = live]_vars

\* What the caller sees of a call: the value returned and errno.
Observed == <<last.ret, errno>>

\* C9 as claimed: the caller can tell an allocation failure from an overflow
\* by what the call returns and sets.  Every overflow shows <<-1, ENOMEM>>
\* (C9_FailuresLookAlike), so an allocation failure must show something else.
C9_FailureKindsDistinguishable ==
    (last.cause = "alloc" /\ last.ret # 0) => Observed # <<-1, ENOMEM>>

\* C9 as amended: every fallible call reports a failure as -1 (NULL from
\* elasticarray_init) whatever its kind, and an overflow sets errno to
\* ENOMEM, the value a failed allocation leaves: the caller sees that the
\* call failed, not which kind of failure it was.
C9_FailuresLookAlike ==
    /\ last.ret \in {0, -1}
    /\ last.ret = -1 => last.cause \in {"overflow", "alloc"}
    /\ last.cause = "overflow" => Observed = <<-1, ENOMEM>>
    /\ (last.cause = "alloc" /\ last.op # "shrink") => Observed = <<-1, ENOMEM>>

\* C9 witness: a resize has just failed on overflow, returning -1 with
\* errno = ENOMEM.
C9_Witness ==
    /\ last.op = "resize" /\ last.cause = "overflow"
    /\ Observed = <<-1, ENOMEM>>

\* C10: in every state of a live array, buf is a block exactly when
\* alloc > 0, and then it is a live block of alloc bytes.
C10_StorageIffAllocated ==
    ea = "live" =>
        /\ (buf # NULL) = (alloc > 0)
        /\ buf # NULL => (buf \in live /\ Len(heap[buf]) = alloc)

\* C10 witness: a shrink has just emptied the array and freed its buffer.
C10_Witness ==
    /\ ea = "live" /\ last.op = "shrink" /\ size = 0
    /\ alloc = 0 /\ buf = NULL
    /\ calls = <<Req("free", 0, 1)>>

\* C11: a successful truncate leaves alloc equal to size exactly (and no
\* buffer when size = 0), with size and the logical content as they were,
\* from whatever state it is called in.
C11_TruncateExact ==
    [][(last'.op = "truncate" /\ last'.ret = 0) =>
        /\ alloc' = size'
        /\ size' = size
        /\ (size' = 0) => (buf' = NULL)
        /\ LogicalContent' = LogicalContent]_vars

\* How many reallocations the requests cs hold.
Reallocations(cs) == Cardinality({i \in 1..Len(cs) : cs[i].fn = "realloc"})

\* The least k with 2^k >= n, for 1 <= n <= WIDE_MAX.
CeilLog2(n) == CHOOSE k \in 0..WideBits : 2^k >= n /\ \A j \in 0..(k - 1) : 2^j < n

\* C12: N appends of one record each to an array that began empty, every
\* allocation succeeding, make at most ceil(log2 N) + 1 reallocations.
C12_LogarithmicReallocations ==
    (hist.L > 0 /\ hist.n >= 1 /\ Refusals(calls) = 0) =>
        Reallocations(calls) <= CeilLog2(hist.n) + 1

\* The offsets of records 0 .. n - 1 of length len, in ascending order.
Offsets(n, len) == [j \in 1..n |-> (j - 1) * len]

\* C13 as claimed: when elasticarray_iter returns it has passed to fp the
\* addresses of records 0, 1, ..., k - 1 in that order, each once, record i
\* at offset i * reclen, k being the record count when it was called,
\* whatever fp did to the array's size in between.
C13_IterOverCountAtCall ==
    (last.op = "iter" /\ iter.pc = "none") =>
        iter.seen = Offsets(iter.k, iter.reclen)

\* C13 as amended: elasticarray_iter passes to fp the addresses of records
\* 0, 1, 2, ... in that order, each once, record i at offset i * reclen; it
\* calls fp for record i exactly when i is below the record count the array
\* has at that moment, and returns at the first i that is not.  It has then
\* called fp k times if no call of fp changed the size.
C13_IterRereadsCount ==
    [][/\ iter'.seen = Offsets(iter'.i, iter'.reclen)
       /\ (iter.pc = "loop" /\ iter'.pc = "loop") =>
            /\ iter.i < size \div iter.reclen
            /\ iter'.i = iter.i + 1
       /\ (iter.pc = "loop" /\ iter'.pc = "none") =>
            /\ iter.i >= size \div iter.reclen
            /\ iter'.i = iter.i /\ iter'.seen = iter.seen
            /\ iter.steady => Len(iter.seen) = iter.k]_vars

\* C13 witness: elasticarray_iter has returned after fewer calls of fp than
\* the array had records when it was called, an fp having shrunk the array.
C13_Witness ==
    /\ last.op = "iter" /\ iter.pc = "none"
    /\ ~iter.steady
    /\ Len(iter.seen) >= 1 /\ Len(iter.seen) < iter.k
    /\ Len(iter.seen) >= size \div iter.reclen

\* The allocation the policy names for a buffer of A bytes and a target of T
\* bytes, in unbounded arithmetic.
PolicyTarget(A, T) ==
    IF A < T THEN Max(T, 2 * A)
    ELSE IF A > 4 * T THEN 2 * T
    ELSE A

\* C14: for a buffer of A bytes and a target T = nrec * reclen with 4 * T
\* inside size_t, a resize that succeeds sets size to T and alloc to
\* max(T, 2A) if A < T, to 2T if A > 4T and leaves it A otherwise; realloc is
\* called once when that allocation differs from A and is not 0, and not at
\* all otherwise; malloc is never called; the size the array had plays no
\* part.
C14_ResizePolicy ==
    [][(/\ last'.op = "resize"
        /\ last'.nrec * last'.reclen * 4 <= WIDE_MAX) =>
        LET T == last'.nrec * last'.reclen
            want == PolicyTarget(alloc, T)
        IN /\ last'.cause # "overflow"
           /\ last'.ret = 0 => (size' = T /\ alloc' = want)
           /\ Reallocations(calls') =
                (IF want # alloc /\ want # 0 THEN 1 ELSE 0)
           /\ \A i \in 1..Len(calls') : calls'[i].fn # "malloc"
           /\ Reallocations(calls') = 0 => last'.ret = 0]_vars

\* C14 witness: a resize to 3 bytes has just doubled a buffer of 2 bytes to
\* 4 bytes.
C14_Witness ==
    /\ last.op = "resize" /\ last.ret = 0
    /\ last.nrec * last.reclen = 3
    /\ size = 3 /\ alloc = 4 /\ Reallocated(calls)

\* C15: from an array holding more than four times its size (as a shrink
\* whose realloc failed leaves it), a resize or append that succeeds and
\* leaves size > 0 leaves alloc <= 4 * size.
C15_NextResizeRestoresBound ==
    [][(/\ ea = "live" /\ size > 0 /\ alloc > 4 * size
        /\ last'.op \in {"resize", "append"} /\ last'.ret = 0
        /\ size' > 0)
        => alloc' <= 4 * size']_vars

\* C15 witness: an append of no records to an array of 1 byte has just
\* reallocated its buffer to 2 bytes: the buffer it found had more than 4.
C15_Witness ==
    /\ ea = "live" /\ last.op = "append" /\ last.nrec = 0 /\ last.ret = 0
    /\ size = 1 /\ alloc = 2 /\ Reallocated(calls)

\* C16: a resize, construct, append or shrink whose resize() succeeded leaves
\* alloc >= size, the size being the target it was given: the products of
\* the policy do not wrap into an allocation below the target.
C16_ResizeCoversTarget ==
    [][(/\ last'.op \in {"init", "resize", "append", "shrink"}
        /\ last'.ret = 0 /\ ea' = "live" /\ ~Refused(calls'))
        => (alloc' >= size' /\ Len(Storage') >= size')]_vars

\* The blocks the array and its caller own: the array's buffer, and the
\* buffer export or exportdup handed to the caller.
Owned ==
    (IF ea = "live" /\ buf # NULL THEN {buf} ELSE {}) \cup
    (IF out # NULL THEN {out} ELSE {})

\* 1 when the structure is allocated.
Wrapper(e) == IF e = "live" THEN 1 ELSE 0

\* The allocations the requests cs made on an array whose buffer was b, and
\* the blocks they freed (free(NULL) frees none; a realloc that moves a block
\* neither adds nor frees one).
Allocated(cs, b) ==
    Cardinality({i \in 1..Len(cs) :
        /\ cs[i].ok
        /\ cs[i].fn = "malloc" \/ (cs[i].fn = "realloc" /\ b = NULL)})
Freed(cs) == Cardinality({i \in 1..Len(cs) : cs[i].fn = "free" /\ cs[i].ok})

\* C17: whatever the allocator refuses, the live blocks are exactly the
\* array's buffer (present iff alloc > 0) and what the caller was handed, the
\* structure being allocated iff the array is live; every call changes the
\* number of live allocations by its allocations less its frees, so nothing
\* is freed twice or dropped; a failed construct leaves nothing allocated;
\* destroy frees structure and buffer and does nothing on NULL; a successful
\* export leaves the buffer it handed over as the only live block.
C17_AllocationsAccounted ==
    [][/\ live' = Owned'
       /\ ea' = "live" => ((buf' # NULL) = (alloc' > 0))
       /\ Wrapper(ea') + Cardinality(live') =
            Wrapper(ea) + Cardinality(live)
                + Allocated(calls', buf) - Freed(calls')
       /\ (last'.op = "init" /\ last'.ret = -1) =>
            (ea' # "live" /\ live' = {})
       /\ last'.op = "free" =>
            /\ ea' # "live" /\ live' = {}
            /\ ea # "live" => (calls' = <<>> /\ ea' = ea /\ heap' = heap)
       /\ (last'.op = "export" /\ last'.ret = 0) =>
            /\ ea' = "freed"
            /\ live' = (IF out' = NULL THEN {} ELSE {out'})]_vars

\* C17 witness: an export has just succeeded; the structure is freed and
\* the buffer handed over, with bytes in it, is the only live block.
C17_Witness ==
    /\ last.op = "export" /\ last.ret = 0 /\ ea = "freed"
    /\ out # NULL /\ live = {out} /\ Len(heap[out]) > 0

\* C18: no call asks the allocator for 0 bytes: no malloc or realloc among
\* the requests of any call has size 0.
C18_NoZeroSizeRequest ==
    \A i \in 1..Len(calls) : calls[i].fn \in {"malloc", "realloc"} => ~calls[i].zero

\* C19: a live array of size 0 has alloc = 0 and no buffer, in every state;
\* and a resize, shrink or append to size 0 frees the buffer without calling
\* realloc, so it does not fail.
C19_EmptyHoldsNothing ==
    [][/\ (ea' = "live" /\ size' = 0) => (alloc' = 0 /\ buf' = NULL)
       /\ (\/ last'.op = "resize" /\ last'.nrec = 0
           \/ last'.op = "shrink" /\ size' = 0
           \/ last'.op = "append" /\ last'.nrec = 0 /\ size = 0)
          => /\ last'.ret = 0 /\ size' = 0
             /\ Reallocations(calls') = 0
             /\ calls' = <<Req("free", 0, buf)>>
             /\ buf # NULL => buf \notin live']_vars

\* C19 witness: a shrink by more than SIZE_MAX / 2 bytes has just emptied an
\* array that had a buffer, and freed the buffer.
C19_Witness ==
    /\ ea = "live" /\ last.op = "shrink" /\ last.ret = 0
    /\ last.nrec * last.reclen > SIZE_MAX \div 2
    /\ size = 0 /\ alloc = 0 /\ buf = NULL /\ live = {}
    /\ calls = <<Req("free", 0, 1)>>

\* C20: an append without overflow whose resulting size is within the
\* current allocation (size + nrec * reclen <= alloc) succeeds and calls
\* neither realloc nor malloc, in whatever state the array is.
C20_FittingAppendNeedsNoAllocator ==
    [][(/\ last'.op = "append" /\ ea = "live"
        /\ ~BytesOverflow(last')
        /\ size + last'.nrec * last'.reclen <= alloc)
        => /\ last'.ret = 0
           /\ \A i \in 1..Len(calls') : calls'[i].fn = "free"]_vars

(* -------------------------------- Next -------------------------------- *)

Next ==
    \/ \E nrec \in SizeT, reclen \in RecLens : elasticarray_init(nrec, reclen)
    \/ \E nrec \in SizeT, reclen \in RecLens : elasticarray_resize(nrec, reclen)
    \/ \E nrec \in SizeT, reclen \in RecLens : elasticarray_append(nrec, reclen)
    \/ \E nrec \in SizeT, reclen \in RecLens : elasticarray_shrink(nrec, reclen)
    \/ elasticarray_truncate
    \/ elasticarray_free
    \/ \E reclen \in RecLens : elasticarray_export(reclen)
    \/ \E reclen \in RecLens : elasticarray_exportdup(reclen)
    \/ release
    \/ returned

Spec == Init /\ [][Next]_vars

\* elasticarray_iter on the arrays elasticarray_init returns, with an fp that
\* reads, shrinks or grows the array.
NextIter ==
    \/ \E nrec \in SizeT, reclen \in RecLens : elasticarray_init(nrec, reclen)
    \/ \E reclen \in RecLens : elasticarray_iter(reclen)
    \/ elasticarray_iter_fp
    \/ elasticarray_iter_return
    \/ returned

SpecIter == Init /\ [][NextIter]_vars

\* resize() on WideBits bits, from every array it can be handed.
NextPolicy ==
    \/ \E nrec \in WideT, reclen \in RecLens :
            elasticarray_resize_wide(nrec, reclen)
    \/ returned

SpecPolicy == InitPolicy /\ [][NextPolicy]_vars

\* Appends of one record each, on WideBits bits, to an array that began
\* empty.
NextAmortized ==
    \E reclen \in RecLens : elasticarray_append_wide(1, reclen)

SpecAmortized == InitAmortized /\ [][NextAmortized]_vars

====
